---- MODULE Spec2Model ----
(***************************************************************************)
(* Chunk hash, blob encoding and blob evaluation circuit of zkevm-circuits *)
(* (aggregator/src/chunk.rs, zkevm-circuits/src/blob_circuit.rs).          *)
(*                                                                         *)
(* The foreign field bls12_381::Scalar (255 bits, two-adicity 32) and the  *)
(* domain of 4096 points are beyond explicit-state exploration.  The       *)
(* circuit arithmetic is carried out in the prime field of FP_MODULUS      *)
(* elements with a domain of BLOB_WIDTH points, every formula of the code  *)
(* kept as written.  The byte-level decoding Fp::from_bytes is modelled    *)
(* with the real 32-byte modulus (FP_MODULUS_BE).                          *)
(***************************************************************************)
EXTENDS Integers, Sequences, FiniteSets, TLC

(***************************************************************************)
(* Program constants (scaled where noted).                                 *)
(***************************************************************************)
\* blob_circuit.rs:14  Fp = bls12_381::Scalar; scaled to the field of 17 elements
FP_MODULUS == 17
\* two-adicity of the field: FP_MODULUS - 1 = 2^FP_S (32 for bls12_381::Scalar)
FP_S == 4
\* blob_circuit.rs:28  (4096 in the source)
BLOB_WIDTH == 4
\* blob_circuit.rs:29  (12 in the source)
BLOB_WIDTH_BITS == 2
\* blob_circuit.rs:191 the base Fp::from(123); scaled to a base of F_17 whose
\* powers behave as those of 123 do in the real field: 123^(32-12) has
\* 4096 pairwise distinct powers and is no 4096-th root of unity.
ROOT_BASE == 3
\* blob_circuit.rs:107
NUM_LIMBS == 3
\* blob_circuit.rs:108 (88 in the source)
LIMB_BITS == 2

(***************************************************************************)
(* Bounds of the model.                                                    *)
(***************************************************************************)
\* blob values are drawn from 0..MaxBlobVal
MaxBlobVal == 2

FpElems == 0 .. (FP_MODULUS - 1)
BlobVals == 0 .. MaxBlobVal
DomainIdx == 0 .. (BLOB_WIDTH - 1)

(***************************************************************************)
(* Foreign-field arithmetic (the FpConfig chip: add/sub + carry_mod, mul,  *)
(* divide).                                                                *)
(***************************************************************************)
FpAdd(a, b) == (a + b) % FP_MODULUS
FpSub(a, b) == (a + FP_MODULUS - b) % FP_MODULUS
FpMul(a, b) == (a * b) % FP_MODULUS
\* divide is only defined for a non-zero divisor
FpInv(a) == CHOOSE x \in FpElems : (a * x) % FP_MODULUS = 1
FpDiv(a, b) == FpMul(a, FpInv(b))

RECURSIVE fp_pow(_, _)
fp_pow(a, e) == IF e = 0 THEN 1 ELSE FpMul(a, fp_pow(a, e - 1))

\* fp_is_zero + cross_field_load_private: the 0/1 indicator as an Fp element
fp_is_zero(a) == IF a = 0 THEN 1 ELSE 0

(***************************************************************************)
(* Root-of-unity domain, blob_circuit.rs:190-206.                          *)
(***************************************************************************)
blob_width_th_root_of_unity == fp_pow(ROOT_BASE, FP_S - BLOB_WIDTH_BITS)

roots_of_unity == [i \in DomainIdx |-> fp_pow(blob_width_th_root_of_unity, i)]

RECURSIVE reverse_bits(_, _)
reverse_bits(i, bits) ==
    IF bits = 0 THEN 0
    ELSE (i % 2) * (2 ^ (bits - 1)) + reverse_bits(i \div 2, bits - 1)

bit_reversal_permutation(seq) ==
    [i \in DomainIdx |-> seq[reverse_bits(i, BLOB_WIDTH_BITS)]]

roots_of_unity_brp == bit_reversal_permutation(roots_of_unity)

\* instance(): omega = Fp::from(123).pow(FP_S - 12), the same expression
instance_omega == fp_pow(ROOT_BASE, FP_S - BLOB_WIDTH_BITS)

(***************************************************************************)
(* Limb codec: decompose_biguint(x, NUM_LIMBS, LIMB_BITS).                 *)
(***************************************************************************)
RECURSIVE decompose_biguint(_, _, _)
decompose_biguint(x, n, bits) ==
    IF n = 0 THEN << >>
    ELSE << x % (2 ^ bits) >> \o decompose_biguint(x \div (2 ^ bits), n - 1, bits)

(***************************************************************************)
(* BlobCircuit::assign, blob_circuit.rs:142-297.                           *)
(***************************************************************************)
\* lines 229-231: denominator_i + is_zero_denominator_i
safe_denominator(denominator_i, is_zero) == FpAdd(denominator_i, is_zero)

\* lines 236-238: cp_is_not_root_of_unity *= (1 - is_zero)
update_flag(flag, is_zero) == FpMul(flag, FpSub(1, is_zero))

\* lines 242-244: result += blob[i] * is_zero
update_result(result, blob_i, is_zero) == FpAdd(result, FpMul(blob_i, is_zero))

\* lines 214, 246-248: barycentric_evaluation += root*blob[i] / safe_denominator
update_evaluation(evaluation, root, blob_i, safe) ==
    FpAdd(evaluation, FpDiv(FpMul(root, blob_i), safe))

\* lines 213-249: the loop over the held window, from position i on
RECURSIVE window_loop(_, _, _, _, _)
window_loop(i, z, index, blob, acc) ==
    IF i >= Len(blob) THEN acc
    ELSE LET root          == roots_of_unity_brp[i + index]
             denominator_i == FpSub(z, root)
             is_zero       == fp_is_zero(denominator_i)
             safe          == safe_denominator(denominator_i, is_zero)
         IN  window_loop(i + 1, z, index, blob,
                [result     |-> update_result(acc.result, blob[i + 1], is_zero),
                 flag       |-> update_flag(acc.flag, is_zero),
                 evaluation |-> update_evaluation(acc.evaluation, root,
                                                  blob[i + 1], safe)])

\* mutant: only the positions after the window are visited
outside_positions_after_window(index, len) ==
    {i \in DomainIdx : i >= index + len}

\* line 261: (0..index).chain((index + len)..BLOB_WIDTH)
outside_positions(index, len) ==
    {i \in DomainIdx : i < index \/ i >= index + len}

\* lines 261-280: the flag bookkeeping over the positions outside the window
RECURSIVE outside_loop(_, _, _)
outside_loop(todo, z, flag) ==
    IF todo = {} THEN flag
    ELSE LET i == CHOOSE j \in todo : \A k \in todo : j <= k
         IN  outside_loop(todo \ {i}, z,
                update_flag(flag, fp_is_zero(FpSub(z, roots_of_unity_brp[i]))))

\* lines 250-254: (z^BLOB_WIDTH - 1) / BLOB_WIDTH
factor(z) == FpDiv(FpSub(fp_pow(z, BLOB_WIDTH), 1), BLOB_WIDTH % FP_MODULUS)

\* mutant: the barycentric evaluation is added without the flag
select_result_unguarded(result, evaluation, flag) == FpAdd(result, evaluation)

\* lines 282-284: result + barycentric_evaluation * cp_is_not_root_of_unity
select_result(result, evaluation, flag) == FpAdd(result, FpMul(evaluation, flag))

\* whether every roots_of_unity_brp[..] access of assign is in bounds
assign_in_bounds(index, len) ==
    /\ (len > 0 => index + len <= BLOB_WIDTH)
    /\ index <= BLOB_WIDTH

\* the foreign-field result of assign (lines 208-284)
assign_value(z, index, blob) ==
    LET acc  == window_loop(0, z, index, blob,
                            [result |-> 0, flag |-> 1, evaluation |-> 0])
        bary == FpMul(acc.evaluation, factor(z))
        flag == outside_loop(outside_positions(index, Len(blob)), z, acc.flag)
    IN  [result |-> select_result(acc.result, bary, flag),
         flag |-> flag, evaluation |-> bary]

\* line 294: the six limbs assign returns
assign(z, index, blob) ==
    IF ~assign_in_bounds(index, Len(blob)) THEN [status |-> "panic"]
    ELSE LET v == assign_value(z, index, blob)
         IN  [status |-> "ok",
              limbs  |-> decompose_biguint(z, NUM_LIMBS, LIMB_BITS)
                         \o decompose_biguint(v.result, NUM_LIMBS, LIMB_BITS),
              result |-> v.result,
              flag   |-> v.flag,
              evaluation |-> v.evaluation]

(***************************************************************************)
(* Reference evaluations (direct field arithmetic, no circuit).            *)
(***************************************************************************)
\* sum over positions i..len-1 of blob[i]*domain[i+index]/(z - domain[i+index])
RECURSIVE reference_sum(_, _, _, _)
reference_sum(i, z, index, blob) ==
    IF i >= Len(blob) THEN 0
    ELSE FpAdd(FpDiv(FpMul(blob[i + 1], roots_of_unity_brp[i + index]),
                     FpSub(z, roots_of_unity_brp[i + index])),
               reference_sum(i + 1, z, index, blob))

\* ((z^BLOB_WIDTH - 1)/BLOB_WIDTH) * sum, for z off the domain
reference_evaluation(z, index, blob) ==
    FpMul(FpDiv(FpSub(fp_pow(z, BLOB_WIDTH), 1), BLOB_WIDTH % FP_MODULUS),
          reference_sum(0, z, index, blob))

\* product over j # k of (z - d_j)/(d_k - d_j)
RECURSIVE lagrange_basis(_, _, _)
lagrange_basis(todo, k, z) ==
    IF todo = {} THEN 1
    ELSE LET j == CHOOSE x \in todo : TRUE
         IN  FpMul(FpDiv(FpSub(z, roots_of_unity_brp[j]),
                         FpSub(roots_of_unity_brp[k], roots_of_unity_brp[j])),
                   lagrange_basis(todo \ {j}, k, z))

\* f(z) for the polynomial f of degree < BLOB_WIDTH with f(domain[k]) = blob[k]
RECURSIVE interpolation(_, _, _)
interpolation(k, z, blob) ==
    IF k >= BLOB_WIDTH THEN 0
    ELSE FpAdd(FpMul(blob[k + 1], lagrange_basis(DomainIdx \ {k}, k, z)),
               interpolation(k + 1, z, blob))

(***************************************************************************)
(* Blob encoder: block_to_blob, blob_circuit.rs:375-414, and the decoding  *)
(* of its groups, BlobCircuit::partial_blob, blob_circuit.rs:83-95.        *)
(***************************************************************************)
\* payload lengths 0..MaxDataLen are explored (beyond MAX_BLOB_DATA_SIZE)
MaxDataLen == 124

Bytes == 0 .. 255

\* line 375
MAX_BLOB_DATA_SIZE == BLOB_WIDTH * 31 - 4

Min(a, b) == IF a < b THEN a ELSE b

Zeros(n) == [i \in 1 .. n |-> 0]

Reverse(s) == [i \in 1 .. Len(s) |-> s[Len(s) + 1 - i]]

\* x.to_le_bytes() for an n-byte unsigned integer
RECURSIVE to_le_bytes(_, _)
to_le_bytes(x, n) ==
    IF n = 0 THEN << >> ELSE << x % 256 >> \o to_le_bytes(x \div 256, n - 1)

\* x.to_be_bytes() for an n-byte unsigned integer
to_be_bytes(x, n) == Reverse(to_le_bytes(x, n))

\* lines 392-395: version byte, 4-byte little-endian length, first payload bytes
blob_header(data) ==
    << 0 >> \o to_le_bytes(Len(data), 4) \o SubSeq(data, 1, Min(27, Len(data)))

\* mutant: the final, partial group is not padded
encode_group_unpadded(chunk) == << 0 >> \o chunk

\* mutant: the zero byte is written after the payload bytes
encode_group_zero_last(chunk) ==
    chunk \o Zeros(31 - Min(31, Len(chunk))) \o << 0 >>

\* lines 405-410: one zero byte, up to 31 payload bytes, zero padding to 31
encode_group(chunk) ==
    << 0 >> \o chunk \o Zeros(31 - Min(31, Len(chunk)))

\* lines 404-411: data[27..].chunks(31)
RECURSIVE encode_groups(_)
encode_groups(rest) ==
    IF rest = << >> THEN << >>
    ELSE LET n == Min(31, Len(rest))
         IN  encode_group(SubSeq(rest, 1, n))
                \o encode_groups(SubSeq(rest, n + 1, Len(rest)))

\* lines 386-388: the size check
data_too_large(len) == len > MAX_BLOB_DATA_SIZE

\* lines 377-414
block_to_blob(data) ==
    IF data_too_large(Len(data)) THEN [status |-> "err"]
    ELSE IF Len(data) <= 27
         THEN [status |-> "ok",
               bytes  |-> blob_header(data) \o Zeros(27 - Len(data))]
         ELSE [status |-> "ok",
               bytes  |-> blob_header(data)
                          \o encode_groups(SubSeq(data, 28, Len(data)))]

\* the modulus of bls12_381::Scalar, most significant byte first
FP_MODULUS_BE ==
    << 115, 237, 167, 83, 41, 157, 125, 72, 51, 57, 216, 8, 9, 161, 216, 5,
       83, 189, 164, 2, 255, 254, 91, 254, 255, 255, 255, 255, 0, 0, 0, 1 >>

\* a < b for two big-endian byte strings of the same length
RECURSIVE be_less(_, _)
be_less(a, b) ==
    IF a = << >> THEN FALSE
    ELSE IF Head(a) # Head(b) THEN Head(a) < Head(b)
    ELSE be_less(Tail(a), Tail(b))

\* Fp::from_bytes: a 32-byte little-endian string is a scalar only when its
\* value is below the modulus
from_bytes(le) ==
    IF Len(le) = 32 /\ be_less(Reverse(le), FP_MODULUS_BE)
    THEN [some |-> TRUE, repr |-> le]
    ELSE [some |-> FALSE]

\* blob.chunks(32)
RECURSIVE chunks32(_)
chunks32(bytes) ==
    IF bytes = << >> THEN << >>
    ELSE LET n == Min(32, Len(bytes))
         IN  << SubSeq(bytes, 1, n) >> \o chunks32(SubSeq(bytes, n + 1, Len(bytes)))

\* lines 87-90: reverse each group and decode it
decode_groups(bytes) ==
    LET groups == chunks32(bytes)
    IN  [i \in 1 .. Len(groups) |-> from_bytes(Reverse(groups[i]))]

\* lines 83-95: Err(_) => Vec::new(); unwrap() of a failed decode panics
partial_blob_of(data) ==
    LET b == block_to_blob(data)
    IN  IF b.status = "err" THEN [status |-> "ok", elems |-> << >>]
        ELSE LET d == decode_groups(b.bytes)
             IN  IF \E i \in 1 .. Len(d) : ~d[i].some
                 THEN [status |-> "panic"]
                 ELSE [status |-> "ok", elems |-> [i \in 1 .. Len(d) |-> d[i].repr]]

(***************************************************************************)
(* ChunkHash, aggregator/src/chunk.rs.                                     *)
(***************************************************************************)
\* transactions per witness block
MaxTxs == 2

\* u64 arithmetic of chunk.rs:61-64, with the width scaled from 64 bits; the
\* modulus stays a multiple of 2^16, so the `as u16` of line 64 is unchanged
U64_MODULUS == 2 ^ 24
\* chunk.rs:64  `as u16`
U16_MODULUS == 65536

\* an H256 is held as its 32 bytes
H256Zero == Zeros(32)
H256Of(b) == [i \in 1 .. 32 |-> IF i = 32 THEN b ELSE 0]
\* a U256 is held as its 16-bit words, least significant first
U256Of(b) == [i \in 1 .. 16 |-> IF i = 1 THEN b ELSE 0]
\* U256::to_le_bytes
RECURSIVE u256_to_le_bytes(_)
u256_to_le_bytes(x) ==
    IF x = << >> THEN << >>
    ELSE to_le_bytes(Head(x), 2) \o u256_to_le_bytes(Tail(x))
\* U256::to_be_bytes
u256_to_be_bytes(x) == Reverse(u256_to_le_bytes(x))

\* keccak256 as a collision-free hash: the digest names its preimage
keccak256(bytes) == [keccak256 |-> bytes]

\* the outcome of one u64 operation whose mathematical value is x: with
\* overflow checks (debug builds) an out-of-range value panics, without
\* them (release builds) it wraps
u64_op(x, overflow_checks) ==
    IF 0 <= x /\ x < U64_MODULUS THEN [ok |-> TRUE, val |-> x, wrapped |-> FALSE]
    ELSE IF overflow_checks THEN [ok |-> FALSE]
    ELSE [ok |-> TRUE, val |-> x % U64_MODULUS, wrapped |-> TRUE]

SetMax(S) == CHOOSE m \in S : \A x \in S : x <= m
SetMin(S) == CHOOSE m \in S : \A x \in S : m <= x

\* lines 49-53
num_l2_txs(txs, b_num) ==
    Cardinality({i \in 1 .. Len(txs) :
                    ~txs[i].is_l1_msg /\ txs[i].block_number = b_num})

\* lines 54-60: the queue indices (tx.nonce) of the block's L1 messages
l1_queue_indices(txs, b_num) ==
    {txs[i].nonce : i \in {j \in 1 .. Len(txs) :
                        txs[j].is_l1_msg /\ txs[j].block_number = b_num}}

\* line 61: max_queue_index - total_l1_popped + 1
l1_count_of_max(max_queue_index, total_l1_popped, overflow_checks) ==
    LET d == u64_op(max_queue_index - total_l1_popped, overflow_checks)
    IN  IF ~d.ok THEN d
        ELSE LET e == u64_op(d.val + 1, overflow_checks)
             IN  IF ~e.ok THEN e
                 ELSE [ok |-> TRUE, val |-> e.val,
                       wrapped |-> d.wrapped \/ e.wrapped]

\* lines 54-61
num_l1_msgs(txs, b_num, total_l1_popped, overflow_checks) ==
    LET q == l1_queue_indices(txs, b_num)
    IN  IF q = {} THEN [ok |-> TRUE, val |-> 0, wrapped |-> FALSE]
        ELSE l1_count_of_max(SetMax(q), total_l1_popped, overflow_checks)

\* line 64: (num_l2_txs + num_l1_msgs) as u16
num_txs_u16(sum) == sum % U16_MODULUS

\* lines 76-80: the 58 header bytes of one block
block_values(ctx, num_txs) ==
    to_be_bytes(ctx.number, 8) \o to_be_bytes(ctx.timestamp, 8)
        \o to_be_bytes(ctx.base_fee, 32) \o to_be_bytes(ctx.gas_limit, 8)
        \o to_be_bytes(num_txs, 2)

\* lines 48-81: the closure of flat_map for one block context
block_step(block, b_num, total_l1_popped, overflow_checks) ==
    LET l2  == num_l2_txs(block.txs, b_num)
        l1  == num_l1_msgs(block.txs, b_num, total_l1_popped, overflow_checks)
    IN  IF ~l1.ok THEN [ok |-> FALSE]
        ELSE LET tot == u64_op(total_l1_popped + l1.val, overflow_checks)
                 sum == u64_op(l2 + l1.val, overflow_checks)
             IN  IF ~tot.ok \/ ~sum.ok THEN [ok |-> FALSE]
                 ELSE [ok      |-> TRUE,
                       b_num   |-> b_num,
                       before  |-> total_l1_popped,
                       after   |-> tot.val,
                       num_l2_txs  |-> l2,
                       num_l1_msgs |-> l1.val,
                       wrapped |-> l1.wrapped \/ tot.wrapped \/ sum.wrapped,
                       bytes   |-> block_values(block.ctxs[b_num],
                                                num_txs_u16(sum.val))]

\* lines 48-81: the block contexts in ascending block-number order
RECURSIVE block_headers(_, _, _, _)
block_headers(block, todo, total_l1_popped, overflow_checks) ==
    IF todo = {} THEN [ok |-> TRUE, steps |-> << >>]
    ELSE LET b    == SetMin(todo)
             step == block_step(block, b, total_l1_popped, overflow_checks)
         IN  IF ~step.ok THEN [ok |-> FALSE]
             ELSE LET rest == block_headers(block, todo \ {b}, step.after,
                                            overflow_checks)
                  IN  IF ~rest.ok THEN [ok |-> FALSE]
                      ELSE [ok |-> TRUE, steps |-> << step >> \o rest.steps]

RECURSIVE Flatten(_)
Flatten(ss) == IF ss = << >> THEN << >> ELSE Head(ss) \o Flatten(Tail(ss))

\* line 83
tx_hashes(txs) == Flatten([i \in 1 .. Len(txs) |-> txs[i].hash])

\* lines 92-97
post_state_root_of(block) ==
    IF DOMAIN block.ctxs = {} THEN u256_to_be_bytes(block.prev_state_root)
    ELSE block.ctxs[SetMax(DOMAIN block.ctxs)].state_root

\* lines 41-114
from_witness_block(block, is_padding, overflow_checks) ==
    LET h == block_headers(block, DOMAIN block.ctxs,
                           block.start_l1_queue_index, overflow_checks)
    IN  IF ~h.ok THEN [status |-> "panic"]
        ELSE LET data_bytes ==
                    Flatten([i \in 1 .. Len(h.steps) |-> h.steps[i].bytes])
                        \o tx_hashes(block.txs)
             IN  [status     |-> "ok",
                  steps      |-> [i \in 1 .. Len(h.steps) |->
                                    [b_num   |-> h.steps[i].b_num,
                                     before  |-> h.steps[i].before,
                                     after   |-> h.steps[i].after,
                                     num_l2_txs  |-> h.steps[i].num_l2_txs,
                                     num_l1_msgs |-> h.steps[i].num_l1_msgs,
                                     wrapped |-> h.steps[i].wrapped]],
                  data_bytes |-> data_bytes,
                  chunk      |->
                    [chain_id        |-> block.chain_id,
                     prev_state_root |-> u256_to_be_bytes(block.prev_state_root),
                     post_state_root |-> post_state_root_of(block),
                     withdraw_root   |-> u256_to_be_bytes(block.withdraw_root),
                     data_hash       |-> keccak256(data_bytes),
                     challenge_point |-> u256_to_be_bytes(block.challenge_point),
                     partial_result  |-> u256_to_be_bytes(block.partial_result),
                     is_padding      |-> is_padding]]

\* mutant: the withdraw root is left out of the preimage
extract_hash_preimage_no_withdraw(c) ==
    to_be_bytes(c.chain_id, 8) \o c.prev_state_root \o c.post_state_root
        \o c.data_hash

\* lines 176-185: chain id || prev state root || post state root ||
\* withdraw root || data hash
extract_hash_preimage(c) ==
    to_be_bytes(c.chain_id, 8) \o c.prev_state_root \o c.post_state_root
        \o c.withdraw_root \o c.data_hash

\* lines 169-172
public_input_hash(c) == keccak256(extract_hash_preimage(c))

\* mutant: the padded chunk does not carry the data hash over
mock_padded_drops_data_hash(previous_chunk) ==
    IF previous_chunk.is_padding THEN [status |-> "panic"]
    ELSE [status |-> "ok",
          chunk  |-> [previous_chunk EXCEPT !.data_hash = H256Zero,
                                            !.is_padding = TRUE]]

\* lines 150-165: assert!(!previous_chunk.is_padding), then a copy of every
\* field with is_padding = true
mock_padded_chunk_hash_for_testing(previous_chunk) ==
    IF previous_chunk.is_padding THEN [status |-> "panic"]
    ELSE [status |-> "ok",
          chunk  |-> [chain_id        |-> previous_chunk.chain_id,
                      prev_state_root |-> previous_chunk.prev_state_root,
                      post_state_root |-> previous_chunk.post_state_root,
                      withdraw_root   |-> previous_chunk.withdraw_root,
                      data_hash       |-> previous_chunk.data_hash,
                      challenge_point |-> previous_chunk.challenge_point,
                      partial_result  |-> previous_chunk.partial_result,
                      is_padding      |-> TRUE]]

(***************************************************************************)
(* The scalars of a witness block: the ChunkHash accessors                 *)
(* (chunk.rs:187-201) and BlobCircuit::new_from_block                      *)
(* (blob_circuit.rs:305-314).                                              *)
(***************************************************************************)
\* chunk.rs:191, 200: decompose_biguint(.., 3, 88)
CHUNK_NUM_LIMBS == 3
CHUNK_LIMB_BITS == 88

\* decompose_biguint of a number given by its little-endian bytes, for limbs
\* of a whole number of bytes: limb k holds bytes k*limb_bytes onwards
decompose_biguint_bytes(le, n, limb_bytes) ==
    [k \in 1 .. n |->
        [j \in 1 .. limb_bytes |->
            LET p == (k - 1) * limb_bytes + j
            IN  IF p <= Len(le) THEN le[p] ELSE 0]]

\* chunk.rs:188-199: Fp::from_bytes(&stored.into()).unwrap(), then the limbs
decode_and_decompose(stored) ==
    LET fe == from_bytes(stored)
    IN  IF ~fe.some THEN [status |-> "panic"]
        ELSE [status |-> "ok",
              scalar |-> fe.repr,
              limbs  |-> decompose_biguint_bytes(fe.repr, CHUNK_NUM_LIMBS,
                                                 CHUNK_LIMB_BITS \div 8)]

\* ChunkHash::challenge_point, chunk.rs:187-194
chunk_challenge_point(c) == decode_and_decompose(c.challenge_point)

\* ChunkHash::partial_result, chunk.rs:196-201
chunk_partial_result(c) == decode_and_decompose(c.partial_result)

\* the modulus of bn256::Fr, most significant byte first
FR_MODULUS_BE ==
    << 48, 100, 78, 114, 225, 49, 160, 41, 184, 80, 69, 182, 129, 129, 88, 93,
       40, 51, 232, 72, 121, 185, 112, 145, 67, 225, 245, 147, 240, 0, 0, 1 >>

\* U256::to_scalar: the little-endian bytes, a scalar of the native field
\* only when the value is below its modulus
to_scalar(x) ==
    LET le == u256_to_le_bytes(x)
    IN  IF be_less(Reverse(le), FR_MODULUS_BE)
        THEN [some |-> TRUE, repr |-> le]
        ELSE [some |-> FALSE]

\* blob_circuit.rs:379-384: block.txs[..].rlp_signed, concatenated
block_data(block) == Flatten([i \in 1 .. Len(block.txs) |-> block.txs[i].rlp_signed])

\* BlobCircuit::new_from_block, blob_circuit.rs:305-314; every unwrap() of a
\* failed decode panics
new_from_block(block) ==
    LET bc == to_scalar(block.batch_commit)
        cp == from_bytes(u256_to_le_bytes(block.challenge_point))
        pb == partial_blob_of(block_data(block))
        pr == from_bytes(u256_to_le_bytes(block.partial_result))
    IN  IF ~bc.some \/ ~cp.some \/ pb.status = "panic" \/ ~pr.some
        THEN [status |-> "panic"]
        ELSE [status          |-> "ok",
              batch_commit    |-> bc.repr,
              challenge_point |-> cp.repr,
              index           |-> block.index,
              partial_blob    |-> pb.elems,
              partial_result  |-> pr.repr]

(***************************************************************************)
(* State.                                                                  *)
(***************************************************************************)
VARIABLES
    challenge_point,   \* BlobCircuit.challenge_point
    index,             \* BlobCircuit.index
    partial_blob,      \* BlobCircuit.partial_blob
    domain,            \* the table roots_of_unity_brp loaded by assign
    assigned,          \* what assign returned, or NotRun
    instance,          \* the public instance handed to the prover
    verified,          \* outcome of synthesize_sub against the instance
    data,              \* block.txs[..].rlp_signed concatenated
    blob_bytes,        \* what block_to_blob returned, or NotRun
    decoded,           \* what BlobCircuit::partial_blob returned, or NotRun
    block,             \* the witness block handed to from_witness_block
    overflow_checks,   \* whether the build panics on integer overflow
    chunk_out,         \* what from_witness_block returned, or NotRun
    chunk_a,           \* a ChunkHash
    chunk_b,           \* a second ChunkHash, chunk_a with fields changed
    preimages,         \* extract_hash_preimage of chunk_a and chunk_b, or NotRun
    pad_out,           \* what padding chunk_b returned, or NotRun
    from_padding,      \* whether chunk_b is itself the result of a padding
    cp_limbs,          \* what ChunkHash::challenge_point returned, or NotRun
    pr_limbs,          \* what ChunkHash::partial_result returned, or NotRun
    circuit,           \* what BlobCircuit::new_from_block returned, or NotRun
    split_at,          \* where the domain is split into two windows
    low,               \* what assign returned for [0, split_at), or NotRun
    high               \* what assign returned for [split_at, BLOB_WIDTH)

blobVars == << challenge_point, index, partial_blob, domain, assigned,
               instance, verified >>

encVars == << data, blob_bytes, decoded >>

witVars == << block, overflow_checks, chunk_out >>

hashVars == << chunk_a, chunk_b, preimages, pad_out, from_padding >>

circVars == << cp_limbs, pr_limbs, circuit >>

splitVars == << split_at, low, high >>

vars == << blobVars, encVars, witVars, hashVars, circVars, splitVars >>

NotRun == [status |-> "none"]

(***************************************************************************)
(* Blob circuit: BlobCircuit::new, synthesize_sub.                         *)
(***************************************************************************)
Blobs == UNION {[1 .. n -> BlobVals] : n \in 0 .. BLOB_WIDTH}

\* BlobCircuit::new, lines 72-81: any challenge point, index and blob
BlobNew ==
    /\ challenge_point \in FpElems
    /\ index \in 0 .. BLOB_WIDTH
    /\ partial_blob \in Blobs
    /\ domain = << >>
    /\ assigned = NotRun
    /\ instance = << >>
    /\ verified = "none"

BlobIdle ==
    /\ challenge_point = 0
    /\ index = 0
    /\ partial_blob = << >>
    /\ domain = << >>
    /\ assigned = NotRun
    /\ instance = << >>
    /\ verified = "none"

\* lines 366-368: the constrain_instance loop is commented out, so no
\* constraint relates the limbs assign returns to the instance column
instance_constraints(limbs, inst) == TRUE

\* the instances a prover may hand in: the challenge-point limbs followed by
\* the limbs of the computed result or of another field element
claimed_instances(z, a) ==
    {decompose_biguint(z, NUM_LIMBS, LIMB_BITS)
        \o decompose_biguint(y, NUM_LIMBS, LIMB_BITS) :
        y \in {a.result, FpAdd(a.result, 1)}}

\* synthesize_sub, lines 336-372, run by the prover against an instance
SynthesizeSub ==
    /\ assigned = NotRun
    /\ LET a == assign(challenge_point, index, partial_blob)
       IN  /\ assigned' = a
           /\ IF a.status = "panic"
              THEN /\ domain' = << >>
                   /\ instance' = << >>
                   /\ verified' = "panic"
              ELSE /\ domain' = roots_of_unity_brp
                   /\ \E inst \in claimed_instances(challenge_point, a) :
                        /\ instance' = inst
                        /\ verified' = IF instance_constraints(a.limbs, inst)
                                       THEN "accepted" ELSE "rejected"
    /\ UNCHANGED << challenge_point, index, partial_blob >>
    /\ UNCHANGED << encVars, witVars, hashVars, circVars, splitVars >>

(***************************************************************************)
(* Blob encoder runs.                                                      *)
(***************************************************************************)
\* the payloads explored: every length up to MaxDataLen, filled with a
\* constant byte or with a counting pattern
Payloads ==
    {[i \in 1 .. len |-> (seed + (i - 1) * stride) % 256] :
        len \in 0 .. MaxDataLen, seed \in {0, 255}, stride \in {0, 1}}

EncNew ==
    /\ data \in Payloads
    /\ blob_bytes = NotRun
    /\ decoded = NotRun

EncIdle ==
    /\ data = << >>
    /\ blob_bytes = NotRun
    /\ decoded = NotRun

BlockToBlob ==
    /\ blob_bytes = NotRun
    /\ blob_bytes' = block_to_blob(data)
    /\ UNCHANGED << data, decoded >>
    /\ UNCHANGED << blobVars, witVars, hashVars, circVars, splitVars >>

PartialBlob ==
    /\ decoded = NotRun
    /\ decoded' = partial_blob_of(data)
    /\ UNCHANGED << data, blob_bytes >>
    /\ UNCHANGED << blobVars, witVars, hashVars, circVars, splitVars >>

(***************************************************************************)
(* Chunk hash of a witness block.                                          *)
(***************************************************************************)
BlockNumbers == {1, 2}
\* queue indices and starting offsets explored, the largest u16 among them
QueueIndices == {0, 1, U16_MODULUS - 1}
StartIndices == {0, 2}

\* the block context of block number b
ContextOf(b) ==
    [number |-> b, timestamp |-> 256 + b, base_fee |-> 7 * b,
     gas_limit |-> 65536 * b, state_root |-> H256Of(16 + b)]

\* an L2 transaction carries no queue index of interest
Txs ==
    [is_l1_msg : {FALSE}, block_number : BlockNumbers, nonce : {0},
     hash : {H256Of(1), H256Of(2)}]
    \cup
    [is_l1_msg : {TRUE}, block_number : BlockNumbers, nonce : QueueIndices,
     hash : {H256Of(1), H256Of(2)}]

TxLists == UNION {[1 .. n -> Txs] : n \in 0 .. MaxTxs}

WitnessBlocks ==
    {[ctxs |-> [b \in bs |-> ContextOf(b)],
      txs  |-> txs,
      start_l1_queue_index |-> start,
      chain_id |-> 53077,
      prev_state_root |-> U256Of(3),
      withdraw_root   |-> U256Of(4),
      challenge_point |-> U256Of(5),
      partial_result  |-> U256Of(6)] :
        bs \in SUBSET BlockNumbers, txs \in TxLists, start \in StartIndices}

WitNew ==
    /\ block \in WitnessBlocks
    /\ overflow_checks \in BOOLEAN
    /\ chunk_out = NotRun

WitIdle ==
    /\ block = << >>
    /\ overflow_checks = FALSE
    /\ chunk_out = NotRun

FromWitnessBlock ==
    /\ chunk_out = NotRun
    /\ \E is_padding \in BOOLEAN :
          chunk_out' = from_witness_block(block, is_padding, overflow_checks)
    /\ UNCHANGED << block, overflow_checks >>
    /\ UNCHANGED << blobVars, encVars, hashVars, circVars, splitVars >>

(***************************************************************************)
(* The scalars of a witness block on the chunk-hash side and on the        *)
(* circuit side.                                                           *)
(***************************************************************************)
\* challenge points and partial results of the witness: zero, a small value,
\* a value whose bytes read the same in both orders, a value whose byte
\* reversal is not below the modulus, and the largest U256
U256Vals ==
    {U256Of(0), U256Of(5), U256Of(255),
     [i \in 1 .. 16 |-> IF i = 1 THEN 1 ELSE IF i = 16 THEN 256 ELSE 0],
     [i \in 1 .. 16 |-> U16_MODULUS - 1]}

\* payload lengths: both ends and the lengths at which the number of 32-byte
\* groups changes
PayloadLens ==
    {n \in 0 .. MaxDataLen : n \in {0, MaxDataLen} \/ (n + 4) % 31 \in {0, 1}}

BlockIndices == {0, 1, BLOB_WIDTH}

\* the L2 transactions of one block carrying a payload of n bytes
PayloadTxs(n) ==
    IF n = 0 THEN << >>
    ELSE LET tx(h, m) == [is_l1_msg |-> FALSE, block_number |-> 1, nonce |-> 0,
                          hash |-> H256Of(h), rlp_signed |-> [i \in 1 .. m |-> 255]]
         IN  << tx(1, n \div 2), tx(2, n - n \div 2) >>

CircuitBlocks ==
    {[ctxs |-> [b \in {1} |-> ContextOf(b)],
      txs  |-> PayloadTxs(n),
      start_l1_queue_index |-> 0,
      chain_id |-> 53077,
      prev_state_root |-> U256Of(3),
      withdraw_root   |-> U256Of(4),
      batch_commit    |-> U256Of(7),
      challenge_point |-> cp,
      index           |-> ix,
      partial_result  |-> pr] :
        n \in PayloadLens, cp \in U256Vals, pr \in U256Vals, ix \in BlockIndices}

CircNew ==
    /\ block \in CircuitBlocks
    /\ overflow_checks \in BOOLEAN
    /\ chunk_out = NotRun
    /\ cp_limbs = NotRun
    /\ pr_limbs = NotRun
    /\ circuit = NotRun

CircIdle ==
    /\ cp_limbs = NotRun
    /\ pr_limbs = NotRun
    /\ circuit = NotRun

\* ChunkHash::challenge_point on the chunk hash of the witness block
ChallengePoint ==
    /\ chunk_out # NotRun
    /\ chunk_out.status = "ok"
    /\ cp_limbs = NotRun
    /\ cp_limbs' = chunk_challenge_point(chunk_out.chunk)
    /\ UNCHANGED << pr_limbs, circuit >>
    /\ UNCHANGED << blobVars, encVars, witVars, hashVars, splitVars >>

\* ChunkHash::partial_result on the chunk hash of the witness block
PartialResult ==
    /\ chunk_out # NotRun
    /\ chunk_out.status = "ok"
    /\ pr_limbs = NotRun
    /\ pr_limbs' = chunk_partial_result(chunk_out.chunk)
    /\ UNCHANGED << cp_limbs, circuit >>
    /\ UNCHANGED << blobVars, encVars, witVars, hashVars, splitVars >>

\* BlobCircuit::new_from_block on the witness block
NewFromBlock ==
    /\ circuit = NotRun
    /\ circuit' = new_from_block(block)
    /\ UNCHANGED << cp_limbs, pr_limbs >>
    /\ UNCHANGED << blobVars, encVars, witVars, hashVars, splitVars >>

(***************************************************************************)
(* One blob over the whole domain, evaluated in one circuit and in two     *)
(* circuits that hold the windows [0, split_at) and [split_at, BLOB_WIDTH). *)
(***************************************************************************)
SplitNew ==
    /\ BlobNew
    /\ index = 0
    /\ Len(partial_blob) = BLOB_WIDTH
    /\ split_at \in 0 .. BLOB_WIDTH
    /\ low = NotRun
    /\ high = NotRun

SplitIdle ==
    /\ split_at = 0
    /\ low = NotRun
    /\ high = NotRun

\* BlobCircuit::new(.., 0, blob[..split_at], ..) and its assign
AssignLow ==
    /\ low = NotRun
    /\ low' = assign(challenge_point, 0, SubSeq(partial_blob, 1, split_at))
    /\ UNCHANGED << split_at, high >>
    /\ UNCHANGED << blobVars, encVars, witVars, hashVars, circVars >>

\* BlobCircuit::new(.., split_at, blob[split_at..], ..) and its assign
AssignHigh ==
    /\ high = NotRun
    /\ high' = assign(challenge_point, split_at,
                      SubSeq(partial_blob, split_at + 1, BLOB_WIDTH))
    /\ UNCHANGED << split_at, low >>
    /\ UNCHANGED << blobVars, encVars, witVars, hashVars, circVars >>

(***************************************************************************)
(* ChunkHash values: preimage and padding.                                 *)
(***************************************************************************)
ChainIds == {0, 1, 256}
H256Vals == {H256Zero, H256Of(1)}

ChunkHashes ==
    [chain_id : ChainIds, prev_state_root : H256Vals,
     post_state_root : H256Vals, withdraw_root : H256Vals,
     data_hash : H256Vals, challenge_point : H256Vals,
     partial_result : H256Vals, is_padding : BOOLEAN]

HashFields == {"prev_state_root", "post_state_root", "withdraw_root",
               "data_hash", "challenge_point", "partial_result"}

HashNew ==
    /\ chunk_a \in {c \in ChunkHashes :
                        /\ c.challenge_point = H256Zero
                        /\ c.partial_result = H256Zero
                        /\ ~c.is_padding}
    /\ chunk_b = chunk_a
    /\ preimages = NotRun
    /\ pad_out = NotRun
    /\ from_padding = FALSE

HashIdle ==
    /\ chunk_a = << >>
    /\ chunk_b = << >>
    /\ preimages = NotRun
    /\ pad_out = NotRun
    /\ from_padding = FALSE

\* another ChunkHash value: one field of chunk_b is given another value
ChangeField ==
    /\ preimages = NotRun
    /\ pad_out = NotRun
    /\ ~from_padding
    /\ \/ \E f \in HashFields, v \in H256Vals :
            chunk_b' = [chunk_b EXCEPT ![f] = v]
       \/ \E id \in ChainIds : chunk_b' = [chunk_b EXCEPT !.chain_id = id]
       \/ chunk_b' = [chunk_b EXCEPT !.is_padding = ~chunk_b.is_padding]
    /\ chunk_b' # chunk_b
    /\ UNCHANGED << chunk_a, preimages, pad_out, from_padding >>
    /\ UNCHANGED << blobVars, encVars, witVars, circVars, splitVars >>

ExtractHashPreimage ==
    /\ preimages = NotRun
    /\ preimages' = [status |-> "ok",
                     a |-> extract_hash_preimage(chunk_a),
                     b |-> extract_hash_preimage(chunk_b)]
    /\ UNCHANGED << chunk_a, chunk_b, pad_out, from_padding >>
    /\ UNCHANGED << blobVars, encVars, witVars, circVars, splitVars >>

MockPaddedChunkHash ==
    /\ pad_out = NotRun
    /\ pad_out' = mock_padded_chunk_hash_for_testing(chunk_b)
    /\ UNCHANGED << chunk_a, chunk_b, preimages, from_padding >>
    /\ UNCHANGED << blobVars, encVars, witVars, circVars, splitVars >>

\* the padded chunk becomes the chunk to pad
PadAgain ==
    /\ pad_out # NotRun
    /\ pad_out.status = "ok"
    /\ ~from_padding
    /\ chunk_b' = pad_out.chunk
    /\ pad_out' = NotRun
    /\ from_padding' = TRUE
    /\ UNCHANGED << chunk_a, preimages >>
    /\ UNCHANGED << blobVars, encVars, witVars, circVars, splitVars >>

InitEnc == BlobIdle /\ EncNew /\ WitIdle /\ HashIdle /\ CircIdle /\ SplitIdle
NextEnc == BlockToBlob \/ PartialBlob
SpecEnc == InitEnc /\ [][NextEnc]_vars

InitWit == BlobIdle /\ EncIdle /\ WitNew /\ HashIdle /\ CircIdle /\ SplitIdle
NextWit == FromWitnessBlock
SpecWit == InitWit /\ [][NextWit]_vars

InitHash == BlobIdle /\ EncIdle /\ WitIdle /\ HashNew /\ CircIdle /\ SplitIdle
NextHash == ChangeField \/ ExtractHashPreimage \/ MockPaddedChunkHash \/ PadAgain
SpecHash == InitHash /\ [][NextHash]_vars

InitBlob == BlobNew /\ EncIdle /\ WitIdle /\ HashIdle /\ CircIdle /\ SplitIdle
NextBlob == SynthesizeSub
SpecBlob == InitBlob /\ [][NextBlob]_vars

InitCirc == BlobIdle /\ EncIdle /\ CircNew /\ HashIdle /\ SplitIdle
NextCirc == FromWitnessBlock \/ ChallengePoint \/ PartialResult \/ NewFromBlock
SpecCirc == InitCirc /\ [][NextCirc]_vars

InitSplit == SplitNew /\ EncIdle /\ WitIdle /\ HashIdle /\ CircIdle
NextSplit == SynthesizeSub \/ AssignLow \/ AssignHigh
SpecSplit == InitSplit /\ [][NextSplit]_vars

Window == index .. (index + Len(partial_blob) - 1)
OnDomain(z) == \E k \in DomainIdx : roots_of_unity_brp[k] = z

\* C1: for a challenge point equal to domain[k] with k inside the held
\* window [index, index+len), the result of assign is blob[k-index],
\* whatever the barycentric sum is at that point.
C1_DomainPointInWindow ==
    assigned.status = "ok" =>
        \A k \in Window :
            challenge_point = domain[k] =>
                assigned.result = partial_blob[k - index + 1]

\* a run where z is a domain point of the window, the looked-up blob value
\* is non-zero and the barycentric evaluation is non-zero too
C1_Witness ==
    /\ assigned.status = "ok"
    /\ \E k \in Window :
        /\ challenge_point = domain[k]
        /\ partial_blob[k - index + 1] # 0
        /\ assigned.result = partial_blob[k - index + 1]
    /\ assigned.evaluation # 0

\* the first half of C2 alone: off the domain, assign computes the
\* barycentric formula over the held window
OffDomainFormula ==
    (assigned.status = "ok" /\ ~OnDomain(challenge_point)) =>
        assigned.result =
            reference_evaluation(challenge_point, index, partial_blob)

\* C2: for a challenge point off the domain the result of assign equals the
\* reference evaluation ((z^W - 1)/W) * sum over the window of
\* blob[i-index]*domain[i]/(z - domain[i]), and with index = 0 and
\* len = BLOB_WIDTH this is f(z) for the interpolating polynomial f.
C2_ReferenceEvaluation ==
    (assigned.status = "ok" /\ ~OnDomain(challenge_point)) =>
        /\ assigned.result =
              reference_evaluation(challenge_point, index, partial_blob)
        /\ (index = 0 /\ Len(partial_blob) = BLOB_WIDTH) =>
              assigned.result = interpolation(0, challenge_point, partial_blob)

\* C3: the public instance is exactly 6 values, the limbs of the challenge
\* point followed by the limbs of the result, and an accepted instance is
\* the six limbs the circuit's own assignment computes.
C3_InstanceTiedToAssignment ==
    verified = "accepted" =>
        /\ Len(instance) = 2 * NUM_LIMBS
        /\ instance = assigned.limbs

\* C10: the domain is the bit-reversal permutation of the powers
\* 0..BLOB_WIDTH-1 of a primitive BLOB_WIDTH-th root of unity: every element
\* x has x^BLOB_WIDTH = 1, the elements are pairwise distinct, position i
\* holds the power with exponent bit-reversal of i, and assign and instance
\* use the same root.
C10_DomainOfRootsOfUnity ==
    domain # << >> =>
        /\ \A i \in DomainIdx : fp_pow(domain[i], BLOB_WIDTH) = 1
        /\ \A i, j \in DomainIdx : i # j => domain[i] # domain[j]
        /\ \A i \in DomainIdx :
              domain[i] = fp_pow(blob_width_th_root_of_unity,
                                 reverse_bits(i, BLOB_WIDTH_BITS))
        /\ instance_omega = blob_width_th_root_of_unity

\* the parts of C10 that do hold of the code's domain
DomainDistinctPermuted ==
    domain # << >> =>
        /\ \A i, j \in DomainIdx : i # j => domain[i] # domain[j]
        /\ \A i \in DomainIdx :
              domain[i] = fp_pow(blob_width_th_root_of_unity,
                                 reverse_bits(i, BLOB_WIDTH_BITS))
        /\ instance_omega = blob_width_th_root_of_unity

CeilDiv(a, b) == (a + b - 1) \div b

\* C4: block_to_blob returns exactly 32 bytes for a payload of length
\* L <= 27, exactly 32 + 32*ceil((L-27)/31) bytes for 27 < L <= MAX (never
\* more than BLOB_WIDTH groups), and fails without bytes for L > MAX.
C4_BlobLength ==
    blob_bytes # NotRun =>
        LET L == Len(data)
        IN  /\ L <= 27 =>
                 blob_bytes.status = "ok" /\ Len(blob_bytes.bytes) = 32
            /\ (27 < L /\ L <= BLOB_WIDTH * 31 - 4) =>
                 /\ blob_bytes.status = "ok"
                 /\ Len(blob_bytes.bytes) = 32 + 32 * CeilDiv(L - 27, 31)
                 /\ Len(blob_bytes.bytes) <= 32 * BLOB_WIDTH
            /\ L > BLOB_WIDTH * 31 - 4 =>
                 blob_bytes = [status |-> "err"]

\* a payload whose last group is partial and has been encoded
C4_Witness ==
    /\ blob_bytes # NotRun
    /\ blob_bytes.status = "ok"
    /\ Len(data) > 27 + 31
    /\ (Len(data) - 27) % 31 # 0
    /\ Len(blob_bytes.bytes) = 32 + 32 * CeilDiv(Len(data) - 27, 31)

\* C5: every 32-byte group of an accepted payload's blob begins with a zero
\* byte, so each group, byte-reversed, decodes as a canonical scalar and
\* partial_blob's decode never fails.
C5_GroupsCanonical ==
    /\ (blob_bytes # NotRun /\ blob_bytes.status = "ok") =>
          /\ Len(blob_bytes.bytes) % 32 = 0
          /\ \A g \in 0 .. (Len(blob_bytes.bytes) \div 32 - 1) :
                /\ blob_bytes.bytes[32 * g + 1] = 0
                /\ from_bytes(Reverse(SubSeq(blob_bytes.bytes,
                                             32 * g + 1, 32 * g + 32))).some
    /\ (decoded # NotRun /\ ~data_too_large(Len(data))) =>
          /\ decoded.status = "ok"
          /\ Len(decoded.elems) = CeilDiv(Len(block_to_blob(data).bytes), 32)

\* a payload of 0xff bytes spanning several groups has been decoded
C5_Witness ==
    /\ decoded # NotRun
    /\ decoded.status = "ok"
    /\ Len(decoded.elems) >= 3
    /\ \A i \in 1 .. Len(data) : data[i] = 255
    /\ decoded.elems[2][31] = 255
    /\ decoded.elems[2][32] = 0

\* the L1-message count of the block of step st as the specification
\* defines it: (max queue index of the block) - cursor + 1, or 0
SpecL1Count(st) ==
    LET q == l1_queue_indices(block.txs, st.b_num)
    IN  IF q = {} THEN 0 ELSE SetMax(q) - st.before + 1

\* the blocks are visited in ascending order, each once
AscendingBlocks(steps) ==
    /\ {steps[i].b_num : i \in 1 .. Len(steps)} = DOMAIN block.ctxs
    /\ \A i \in 1 .. (Len(steps) - 1) : steps[i].b_num < steps[i + 1].b_num

\* header i of the stream, with the 2-byte count read back as a number
HeaderAt(bytes, i) == SubSeq(bytes, 58 * (i - 1) + 1, 58 * i)
CountAt(bytes, i) == 256 * bytes[58 * i - 1] + bytes[58 * i]

\* the layout of the stream apart from the value of the count
DataBytesLayout(out) ==
    LET steps == out.steps
        bytes == out.data_bytes
        nb    == Len(steps)
    IN  /\ AscendingBlocks(steps)
        /\ Len(bytes) = 58 * nb + 32 * Len(block.txs)
        /\ \A i \in 1 .. nb :
              LET ctx == block.ctxs[steps[i].b_num]
              IN  SubSeq(HeaderAt(bytes, i), 1, 56) =
                      to_be_bytes(ctx.number, 8) \o to_be_bytes(ctx.timestamp, 8)
                        \o to_be_bytes(ctx.base_fee, 32)
                        \o to_be_bytes(ctx.gas_limit, 8)
        /\ \A j \in 1 .. Len(block.txs) :
              SubSeq(bytes, 58 * nb + 32 * (j - 1) + 1, 58 * nb + 32 * j)
                  = block.txs[j].hash
        /\ (nb = 0 /\ block.txs = << >>) => bytes = << >>

\* no u64 operation of the run left the u64 range
NoOverflow(out) == \A i \in 1 .. Len(out.steps) : ~out.steps[i].wrapped

\* C8: data_bytes is, per block context in ascending order, a 58-byte
\* header whose 2-byte count equals the block's L2 transactions plus its
\* L1-message count, then every transaction hash in witness order; its
\* length is 58*blocks + 32*transactions, empty for an empty witness.
\* Stated for the runs in which no u64 operation overflows (C9 is about
\* the others).
C8_DataBytesLayout ==
    (chunk_out # NotRun /\ chunk_out.status = "ok" /\ NoOverflow(chunk_out)) =>
        /\ DataBytesLayout(chunk_out)
        /\ \A i \in 1 .. Len(chunk_out.steps) :
              CountAt(chunk_out.data_bytes, i) =
                  num_l2_txs(block.txs, chunk_out.steps[i].b_num)
                      + SpecL1Count(chunk_out.steps[i])

\* what holds of the count: it is the sum the code computed, cut to 16 bits
DataBytesLayoutTruncatedCount ==
    (chunk_out # NotRun /\ chunk_out.status = "ok") =>
        /\ DataBytesLayout(chunk_out)
        /\ \A i \in 1 .. Len(chunk_out.steps) :
              CountAt(chunk_out.data_bytes, i) =
                  (chunk_out.steps[i].num_l2_txs
                      + chunk_out.steps[i].num_l1_msgs) % U16_MODULUS

\* C9: the cursor starts at start_l1_queue_index; per block the L1-message
\* count is (max queue index) - cursor + 1, or 0 without L1 messages, and
\* the cursor advances by it; the cursor never decreases, equals
\* max queue index + 1 after a block with L1 messages, and the u64
\* computation never underflows for any witness.
C9_CursorNeverUnderflows ==
    chunk_out # NotRun =>
        /\ chunk_out.status = "ok"
        /\ LET steps == chunk_out.steps
           IN  \A i \in 1 .. Len(steps) :
                  LET q == l1_queue_indices(block.txs, steps[i].b_num)
                  IN  /\ steps[i].before =
                            IF i = 1 THEN block.start_l1_queue_index
                            ELSE steps[i - 1].after
                      /\ ~steps[i].wrapped
                      /\ steps[i].num_l1_msgs = SpecL1Count(steps[i])
                      /\ steps[i].after = steps[i].before + steps[i].num_l1_msgs
                      /\ steps[i].after >= steps[i].before
                      /\ q # {} => steps[i].after = SetMax(q) + 1

\* what holds of the cursor whenever no operation left the u64 range
CursorWithoutOverflow ==
    (chunk_out # NotRun /\ chunk_out.status = "ok") =>
        LET steps == chunk_out.steps
        IN  \A i \in 1 .. Len(steps) :
               LET q == l1_queue_indices(block.txs, steps[i].b_num)
               IN  /\ steps[i].before =
                         IF i = 1 THEN block.start_l1_queue_index
                         ELSE steps[i - 1].after
                   /\ q # {} => steps[i].after = SetMax(q) + 1
                   /\ ~steps[i].wrapped =>
                         /\ steps[i].num_l1_msgs = SpecL1Count(steps[i])
                         /\ steps[i].after >= steps[i].before

PreimageFields == {"chain_id", "prev_state_root", "post_state_root",
                   "withdraw_root", "data_hash"}

\* the fields on which two ChunkHash values differ
Differing(a, b) == {f \in DOMAIN a : a[f] # b[f]}

\* the preimage of c is chain_id (8 bytes big-endian) || prev_state_root ||
\* post_state_root || withdraw_root || data_hash
ConcatenationOf(pre, c) ==
    pre = to_be_bytes(c.chain_id, 8) \o c.prev_state_root \o c.post_state_root
            \o c.withdraw_root \o c.data_hash

\* two ChunkHash values have the same preimage exactly when they agree on
\* the five fields of the preimage
SamePreimageIffSameFields ==
    (preimages.a = preimages.b) <=>
        (Differing(chunk_a, chunk_b) \cap PreimageFields = {})

\* C6: the preimage is the 104-byte concatenation chain_id (8 bytes
\* big-endian) || prev_state_root || post_state_root || withdraw_root ||
\* data_hash: two ChunkHash values have the same preimage exactly when they
\* agree on these five fields, so changing one of them changes the preimage
\* and changing only challenge_point, partial_result or is_padding does not.
C6_Preimage104Bytes ==
    preimages # NotRun =>
        /\ Len(preimages.a) = 104 /\ Len(preimages.b) = 104
        /\ ConcatenationOf(preimages.a, chunk_a)
        /\ ConcatenationOf(preimages.b, chunk_b)
        /\ SamePreimageIffSameFields

\* C6 as amended: the same with the length the five fields add up to,
\* 8 + 4*32 = 136 bytes.
C6_Preimage136Bytes ==
    preimages # NotRun =>
        /\ Len(preimages.a) = 136 /\ Len(preimages.b) = 136
        /\ ConcatenationOf(preimages.a, chunk_a)
        /\ ConcatenationOf(preimages.b, chunk_b)
        /\ SamePreimageIffSameFields

\* the preimages of two chunks that differ in the withdraw root only
C6_Witness ==
    /\ preimages # NotRun
    /\ Differing(chunk_a, chunk_b) = {"withdraw_root"}
    /\ preimages.a # preimages.b

\* C7: padding succeeds only on a chunk with is_padding = false and then
\* returns the chunk with every other field equal and is_padding = true;
\* padding a chunk with is_padding = true fails and produces no chunk, so
\* padding the result of a padding always fails.
C7_Padding ==
    pad_out # NotRun =>
        /\ ~chunk_b.is_padding =>
              /\ pad_out.status = "ok"
              /\ Differing(chunk_b, pad_out.chunk) = {"is_padding"}
              /\ pad_out.chunk.is_padding
        /\ chunk_b.is_padding => pad_out = [status |-> "panic"]
        /\ from_padding => pad_out = [status |-> "panic"]

\* the result of a padding has been padded again, and that failed
C7_Witness ==
    /\ from_padding
    /\ pad_out = [status |-> "panic"]
    /\ Differing(chunk_a, chunk_b) = {"is_padding", "data_hash"}

(***************************************************************************)
(* The scalars of a witness block.                                         *)
(***************************************************************************)
\* the limbs of a scalar held by the circuit
LimbsOf(scalar) ==
    decompose_biguint_bytes(scalar, CHUNK_NUM_LIMBS, CHUNK_LIMB_BITS \div 8)

\* whether 32 little-endian bytes are a canonical scalar
Canonical(le) == be_less(Reverse(le), FP_MODULUS_BE)

\* C11: for the ChunkHash that from_witness_block builds from a witness,
\* challenge_point() and partial_result() return the limbs of the scalars
\* that new_from_block decodes from the same witness.
C11_ChunkAndCircuitAgree ==
    circuit.status = "ok" =>
        /\ cp_limbs.status = "ok" =>
              cp_limbs.limbs = LimbsOf(circuit.challenge_point)
        /\ pr_limbs.status = "ok" =>
              pr_limbs.limbs = LimbsOf(circuit.partial_result)

\* what the code does instead: the chunk hash stores the big-endian bytes, so
\* its accessors decode the byte reversal of what the circuit decodes
AccessorsDecodeReversedBytes ==
    /\ chunk_out.status = "ok" =>
          /\ chunk_out.chunk.challenge_point
                = Reverse(u256_to_le_bytes(block.challenge_point))
          /\ chunk_out.chunk.partial_result
                = Reverse(u256_to_le_bytes(block.partial_result))
    /\ cp_limbs.status = "ok" =>
          cp_limbs.scalar = Reverse(u256_to_le_bytes(block.challenge_point))
    /\ pr_limbs.status = "ok" =>
          pr_limbs.scalar = Reverse(u256_to_le_bytes(block.partial_result))
    /\ circuit.status = "ok" =>
          /\ circuit.challenge_point = u256_to_le_bytes(block.challenge_point)
          /\ circuit.partial_result = u256_to_le_bytes(block.partial_result)

\* the positions of the window a circuit holds
HeldWindow(c) == {c.index + i : i \in 0 .. Len(c.partial_blob) - 1}

\* C12: every circuit new_from_block builds has
\* index + len(partial_blob) <= BLOB_WIDTH, so that every domain access of
\* assign is in bounds and the positions inside and outside the window cover
\* each domain position exactly once.
C12_WindowWithinDomain ==
    circuit.status = "ok" =>
        /\ circuit.index + Len(circuit.partial_blob) <= BLOB_WIDTH
        /\ assign_in_bounds(circuit.index, Len(circuit.partial_blob))
        /\ HeldWindow(circuit) \subseteq DomainIdx
        /\ \A k \in DomainIdx :
              (k \in HeldWindow(circuit))
                 # (k \in outside_positions(circuit.index,
                                            Len(circuit.partial_blob)))

\* what holds instead: the blob of an accepted payload fits the domain, and
\* the index is the unchecked index of the witness
BlobFitsIndexUnchecked ==
    circuit.status = "ok" =>
        /\ Len(circuit.partial_blob) <= BLOB_WIDTH
        /\ circuit.index = block.index

\* C13: at every decode site a 32-byte value that is not below the modulus
\* makes the operation return an invalid-encoding error to its caller.
C13_InvalidEncodingIsAnError ==
    /\ (cp_limbs # NotRun /\ ~Canonical(chunk_out.chunk.challenge_point))
          => cp_limbs.status = "err"
    /\ (pr_limbs # NotRun /\ ~Canonical(chunk_out.chunk.partial_result))
          => pr_limbs.status = "err"
    /\ (/\ circuit # NotRun
        /\ \/ ~Canonical(u256_to_le_bytes(block.challenge_point))
           \/ ~Canonical(u256_to_le_bytes(block.partial_result)))
          => circuit.status = "err"

\* what the code does instead: the failed decode is unwrapped and panics
InvalidEncodingPanics ==
    /\ (cp_limbs # NotRun /\ ~Canonical(chunk_out.chunk.challenge_point))
          => cp_limbs.status = "panic"
    /\ (pr_limbs # NotRun /\ ~Canonical(chunk_out.chunk.partial_result))
          => pr_limbs.status = "panic"
    /\ (/\ circuit # NotRun
        /\ \/ ~Canonical(u256_to_le_bytes(block.challenge_point))
           \/ ~Canonical(u256_to_le_bytes(block.partial_result)))
          => circuit.status = "panic"

\* C14: for a payload above the capacity (and scalars that decode)
\* new_from_block reports the size failure of block_to_blob and returns no
\* circuit and no partial blob.
C14_OversizeIsReported ==
    (/\ circuit # NotRun
     /\ data_too_large(Len(block_data(block)))
     /\ Canonical(u256_to_le_bytes(block.challenge_point))
     /\ Canonical(u256_to_le_bytes(block.partial_result)))
        => circuit.status = "err"

\* what the code does instead: an oversize payload with decodable scalars
\* yields a circuit holding the empty blob
OversizeYieldsEmptyBlob ==
    (circuit # NotRun /\ data_too_large(Len(block_data(block))))
        => \/ circuit.status = "panic"
           \/ circuit.status = "ok" /\ circuit.partial_blob = << >>

(***************************************************************************)
(* Partial results over a split of the domain.                             *)
(***************************************************************************)
\* whether z is the domain point of a position in S
OnDomainIn(z, S) == \E k \in S : roots_of_unity_brp[k] = z

\* C15: partial results are additive over any split of the domain: the
\* result of assign for [0, split_at) plus the result for
\* [split_at, BLOB_WIDTH) is the result for [0, BLOB_WIDTH), for every blob,
\* every challenge point and every split; when the challenge point is a
\* domain point outside the held window, the flag is 0 and the window's
\* result is 0.
C15_SplitAdditive ==
    /\ (low # NotRun /\ high # NotRun /\ assigned # NotRun) =>
          /\ low.status = "ok" /\ high.status = "ok" /\ assigned.status = "ok"
          /\ FpAdd(low.result, high.result) = assigned.result
    /\ (low # NotRun /\ OnDomainIn(challenge_point, split_at .. BLOB_WIDTH - 1))
          => (low.status = "ok" /\ low.flag = 0 /\ low.result = 0)
    /\ (high # NotRun /\ OnDomainIn(challenge_point, 0 .. split_at - 1))
          => (high.status = "ok" /\ high.flag = 0 /\ high.result = 0)

\* the challenge point is a domain point of the lower window: the upper
\* window's barycentric sum is not zero, its result is, and the whole result
\* is the lower window's non-zero one
C15_Witness ==
    /\ low # NotRun /\ high # NotRun /\ assigned # NotRun
    /\ split_at \in 1 .. BLOB_WIDTH - 1
    /\ OnDomainIn(challenge_point, 0 .. split_at - 1)
    /\ high.evaluation # 0
    /\ high.result = 0
    /\ low.result # 0
    /\ assigned.result = low.result

====
